---- MODULE Spec2Model ----
\* Model of dtbiz.py: the decoder of a Flattened Devicetree blob.
\* A buffer is a sequence of bytes (0..255), 1-indexed here, 0-indexed in the
\* source; Python offsets are kept 0-based everywhere and converted on access.
EXTENDS Integers, Sequences, FiniteSets, TLC

VARIABLES buf, pc, hdr, err, rsv_off, entries, rsv_err, rsv_reads,
          off, node_depth, parent_nodes, tokens, tok_depth, tok_reads,
          symbols, sym_err, nodes, stack, root, graph_err

vars == <<buf, pc, hdr, err, rsv_off, entries, rsv_err, rsv_reads,
          off, node_depth, parent_nodes, tokens, tok_depth, tok_reads,
          symbols, sym_err, nodes, stack, root, graph_err>>

\* what generate_html computes from the tokens: untouched while decoding
HtmlVars == <<symbols, sym_err, nodes, stack, root, graph_err>>

\* ---------------------------------------------------------------- bounds
\* Longest structure block drawn from the nesting catalogue, in items.
MaxItems == 5
\* Longest run of raw 4-byte words drawn for the structure block.
MaxWords == 2
\* Longest run of items drawn from the symbols catalogue.
MaxSymItems == 3
\* Longest memory reservation block, in 8-byte units.
MaxRsvUnits == 4

\* ------------------------------------------------------ program constants
HEADER_MAGIC == 0
HEADER_TOTALSIZE == 4
HEADER_OFF_DT_STRUCT == 8
HEADER_OFF_DT_STRINGS == 12
HEADER_OFF_MEM_RSVMAP == 16
HEADER_VERSION == 20
HEADER_LAST_COMP_VERSION == 24
HEADER_BOOT_CPUID_PHYS == 28
HEADER_SIZE_DT_STRINGS == 32
HEADER_SIZE_DT_STRUCT == 36

FDT_BEGIN_NODE == 1
FDT_END_NODE == 2
FDT_PROP == 3
FDT_NOP == 4
FDT_END == 9

\* 0xD00DFEED as its two 16-bit halves <<0xD00D, 0xFEED>>: the value does not
\* fit the checker's 32-bit signed integers (see read_magic).
MAGIC == <<53261, 65261>>
\* upper repetition bound of the node-name part of the name pattern
NAME_MAX == 31

\* ------------------------------------------------------ Python primitives
Min(a, b) == IF a <= b THEN a ELSE b

\* Python's a % b for b > 0: the result has the sign of b.
PyMod(a, b) == ((a % b) + b) % b

\* Python's b[i:j] for i >= 0 (j may be negative: counted from the end).
Slice(b, i, j) ==
    LET jj == IF j < 0 THEN Len(b) + j ELSE j
        lo == Min(i, Len(b))
        hi == Min(IF jj < 0 THEN 0 ELSE jj, Len(b))
    IN  IF hi <= lo THEN <<>> ELSE SubSeq(b, lo + 1, hi)

\* Python's b[i:]
SliceFrom(b, i) == Slice(b, i, Len(b))

\* Python's b.find(b"\0"): the 0-based index of the first NUL byte, or -1.
Find0(b) ==
    IF \E k \in 1..Len(b) : b[k] = 0
    THEN (CHOOSE k \in 1..Len(b) : b[k] = 0 /\ \A j \in 1..(k - 1) : b[j] # 0) - 1
    ELSE -1

\* bytes.decode(): ASCII bytes decode to their own code point, bytes F8..FF
\* are never valid UTF-8.  Multi-byte sequences (80..F7) are outside the
\* alphabet the buffers are drawn from.
DecodeOk(b) == \A k \in 1..Len(b) : b[k] < 128
Decode(b) == b

\* big-endian encoding of a 32-bit value (used to build the input buffers)
BE32(n) == << (n \div 16777216) % 256, (n \div 65536) % 256, (n \div 256) % 256, n % 256 >>
BE64(n) == BE32(0) \o BE32(n)
BEMagic(m) == << m[1] \div 256, m[1] % 256, m[2] \div 256, m[2] % 256 >>

\* read_uint32 raises IndexError when the slice holds fewer than 4 bytes.
\* The value is exact for every word below 2^31; the buffers of this model
\* hold no other word except the magic, which is read by read_magic.
read_uint32_ok(b) == Len(b) >= 4
read_uint32(b) == b[1] * 16777216 + b[2] * 65536 + b[3] * 256 + b[4]

\* read_uint32 of the magic field, kept as <<high half, low half>>.
read_magic(b) == << b[1] * 256 + b[2], b[3] * 256 + b[4] >>

\* read_uint64 raises IndexError when the slice holds fewer than 8 bytes.
\* The 64-bit value hi * 2^32 + lo is kept as the pair <<hi, lo>>.
read_uint64_ok(b) == Len(b) >= 8
read_uint64(b) == << read_uint32(SubSeq(b, 1, 4)), read_uint32(SubSeq(b, 5, 8)) >>

\* ------------------------------------------------------------- get_header
HeaderOffsets == << HEADER_MAGIC, HEADER_TOTALSIZE, HEADER_OFF_DT_STRUCT,
                    HEADER_OFF_DT_STRINGS, HEADER_OFF_MEM_RSVMAP, HEADER_VERSION,
                    HEADER_LAST_COMP_VERSION, HEADER_BOOT_CPUID_PHYS,
                    HEADER_SIZE_DT_STRINGS, HEADER_SIZE_DT_STRUCT >>

\* get(off) of get_header
get(b, o) == read_uint32(Slice(b, o, o + 4))
get_ok(b, o) == read_uint32_ok(Slice(b, o, o + 4))

NoHeader == [magic |-> <<0, 0>>, totalsize |-> 0, off_dt_struct |-> 0, off_dt_strings |-> 0,
             off_mem_rsvmap |-> 0, version |-> 0, last_comp_version |-> 0,
             boot_cpuid_phys |-> 0, size_dt_strings |-> 0, size_dt_struct |-> 0]

ParseHeader(b) ==
    [magic |-> read_magic(Slice(b, HEADER_MAGIC, HEADER_MAGIC + 4)), totalsize |-> get(b, HEADER_TOTALSIZE),
     off_dt_struct |-> get(b, HEADER_OFF_DT_STRUCT),
     off_dt_strings |-> get(b, HEADER_OFF_DT_STRINGS),
     off_mem_rsvmap |-> get(b, HEADER_OFF_MEM_RSVMAP),
     version |-> get(b, HEADER_VERSION),
     last_comp_version |-> get(b, HEADER_LAST_COMP_VERSION),
     boot_cpuid_phys |-> get(b, HEADER_BOOT_CPUID_PHYS),
     size_dt_strings |-> get(b, HEADER_SIZE_DT_STRINGS),
     size_dt_struct |-> get(b, HEADER_SIZE_DT_STRUCT)]

\* get_header without the bound of the structure block
HeaderCheckNoStructBound(h, n) ==
    IF h.magic # MAGIC THEN "magic"
    ELSE IF h.totalsize # n THEN "totalsize"
    ELSE IF ~(h.version >= 17) THEN "version"
    ELSE IF h.last_comp_version # 16 THEN "last_comp_version"
    ELSE IF ~(h.off_mem_rsvmap < h.off_dt_struct) THEN "order_rsvmap"
    ELSE IF ~(h.off_dt_struct < h.off_dt_strings) THEN "order_struct"
    ELSE IF ~(h.off_dt_strings + h.size_dt_strings <= h.totalsize) THEN "bounds_strings"
    ELSE IF h.off_mem_rsvmap % 8 # 0 THEN "align_rsvmap"
    ELSE IF h.off_dt_struct % 4 # 0 THEN "align_struct"
    ELSE "none"

\* The first failing check of get_header on header h of a buffer of length n,
\* in the order of the assertions; "none" when the header is accepted.
HeaderCheck(h, n) ==
    IF h.magic # MAGIC THEN "magic"
    ELSE IF h.totalsize # n THEN "totalsize"
    ELSE IF ~(h.version >= 17) THEN "version"
    ELSE IF h.last_comp_version # 16 THEN "last_comp_version"
    ELSE IF ~(h.off_mem_rsvmap < h.off_dt_struct) THEN "order_rsvmap"
    ELSE IF ~(h.off_dt_struct < h.off_dt_strings) THEN "order_struct"
    ELSE IF ~(h.off_dt_strings + h.size_dt_strings <= h.totalsize) THEN "bounds_strings"
    ELSE IF ~(h.off_dt_struct + h.size_dt_struct <= h.off_dt_strings) THEN "bounds_struct"
    ELSE IF h.off_mem_rsvmap % 8 # 0 THEN "align_rsvmap"
    ELSE IF h.off_dt_struct % 4 # 0 THEN "align_struct"
    ELSE "none"

\* The outcome of get_header: the ten fields are read first (an IndexError of
\* read_uint32 on a short buffer comes before every assertion).
HeaderResult(b) ==
    IF \E i \in 1..Len(HeaderOffsets) : ~get_ok(b, HeaderOffsets[i])
    THEN "IndexError"
    ELSE HeaderCheck(ParseHeader(b), Len(b))

\* ---------------------------------------------------- get_reserve_entries
\* 0-based buffer indices that the slice buf[i:j] actually touches
SliceIdx(b, i, j) == i..(Min(j, Len(b)) - 1)

RsvAddrSlice == Slice(buf, rsv_off, rsv_off + 8)
RsvSizeSlice == Slice(buf, rsv_off + 8, rsv_off + 16)

\* range(hdr.off_mem_rsvmap, hdr.off_dt_struct, 16) still has an element
RsvInRange == rsv_off < hdr.off_dt_struct

\* both read_uint64 calls of one iteration succeed
RsvReadable == read_uint64_ok(RsvAddrSlice) /\ read_uint64_ok(RsvSizeSlice)

\* the indices one iteration reads: the second slice is only taken when the
\* first read_uint64 returned
RsvIterReads ==
    SliceIdx(buf, rsv_off, rsv_off + 8)
    \cup (IF read_uint64_ok(RsvAddrSlice) THEN SliceIdx(buf, rsv_off + 8, rsv_off + 16) ELSE {})

\* an iteration that yields (address, size)
ReserveEntry ==
    /\ pc = "reserve" /\ RsvInRange /\ RsvReadable
    /\ ~(read_uint64(RsvAddrSlice) = <<0, 0>> /\ read_uint64(RsvSizeSlice) = <<0, 0>>)
    /\ entries' = Append(entries, <<read_uint64(RsvAddrSlice), read_uint64(RsvSizeSlice)>>)
    /\ rsv_off' = rsv_off + 16
    /\ rsv_reads' = rsv_reads \cup RsvIterReads
    /\ UNCHANGED <<buf, pc, hdr, err, rsv_err, off, node_depth, parent_nodes,
                   tokens, tok_depth, tok_reads>>
    /\ UNCHANGED HtmlVars

\* the all-zero record: break
ReserveBreak ==
    /\ pc = "reserve" /\ RsvInRange /\ RsvReadable
    /\ read_uint64(RsvAddrSlice) = <<0, 0>> /\ read_uint64(RsvSizeSlice) = <<0, 0>>
    /\ rsv_reads' = rsv_reads \cup RsvIterReads
    /\ pc' = "tokens"
    /\ UNCHANGED <<buf, hdr, err, rsv_off, entries, rsv_err, off, node_depth,
                   parent_nodes, tokens, tok_depth, tok_reads>>
    /\ UNCHANGED HtmlVars

\* read_uint64 indexes past the end of a short slice: the exception leaves
\* list(get_reserve_entries(buf, hdr)) and main()
ReserveFail ==
    /\ pc = "reserve" /\ RsvInRange /\ ~RsvReadable
    /\ rsv_err' = "IndexError"
    /\ rsv_reads' = rsv_reads \cup RsvIterReads
    /\ pc' = "done"
    /\ UNCHANGED <<buf, hdr, err, rsv_off, entries, off, node_depth,
                   parent_nodes, tokens, tok_depth, tok_reads>>
    /\ UNCHANGED HtmlVars

\* the range is exhausted
ReserveExhausted ==
    /\ pc = "reserve" /\ ~RsvInRange
    /\ pc' = "tokens"
    /\ UNCHANGED <<buf, hdr, err, rsv_off, entries, rsv_err, rsv_reads, off,
                   node_depth, parent_nodes, tokens, tok_depth, tok_reads>>
    /\ UNCHANGED HtmlVars

\* --------------------------------------------------- get_structure_tokens
BeginNodeToken(type, name, path) == [type |-> type, name |-> name, path |-> path]
EndNodeToken(type) == [type |-> type]
PropToken(type, name, value) == [type |-> type, name |-> name, value |-> value]
NopToken(type) == [type |-> type]
EndToken(type) == [type |-> type]

\* one character of the class [0-9a-zA-Z,\._\+\-]
IsNameChar(c) == c \in (48..57) \cup (65..90) \cup (97..122) \cup {44, 46, 95, 43, 45}

\* the whole of s is [0-9a-zA-Z,\._\+\-]{1,31}(@[0-9a-zA-Z,\._\+\-]+)?
FullMatch(s) ==
    \E k \in 1..Min(NAME_MAX, Len(s)) :
        /\ \A i \in 1..k : IsNameChar(s[i])
        /\ \/ k = Len(s)
           \/ /\ s[k + 1] = 64
              /\ Len(s) >= k + 2
              /\ \A i \in (k + 2)..Len(s) : IsNameChar(s[i])

\* re.match(r"^...$", name): "$" matches at the end of the string and also
\* just before a newline that is the last character of the string.
ReMatch(s) ==
    \/ FullMatch(s)
    \/ Len(s) >= 1 /\ s[Len(s)] = 10 /\ FullMatch(SubSeq(s, 1, Len(s) - 1))

\* "/".join(names)
RECURSIVE JoinSlash(_)
JoinSlash(names) ==
    IF Len(names) = 0 THEN <<>>
    ELSE IF Len(names) = 1 THEN names[1]
    ELSE names[1] \o <<47>> \o JoinSlash(Tail(names))

\* assert name == "", "root node must NOT have a name"
RootNameOk(name) == name = <<>>
\* assert re.match(...)
NodeNameOk(name) == ReMatch(name)
\* a path built as "/" + "/".join(parent_nodes)
PathOfLeadingSlash(parents) == <<47>> \o JoinSlash(parents)
\* path = "/".join(parent_nodes), after parent_nodes.append(name)
PathOf(parents) == JoinSlash(parents)
\* the depth assertion of PROP left out
PropDepthOkAlways(d) == TRUE
\* assert node_depth > 0
PropDepthOk(d) == d > 0

StructEnd == hdr.off_dt_struct + hdr.size_dt_struct
\* the condition of the while loop
LoopCond == off < hdr.off_dt_strings /\ off < StructEnd

TagSlice == Slice(buf, off, off + 4)
TagOk == read_uint32_ok(TagSlice)
token_type == read_uint32(TagSlice)
TagReads == SliceIdx(buf, off, off + 4)

\* the cursor left where the tag starts
AfterTagStuck == off
\* off += 4, after the tag was read
AfterTag == off + 4

\* BEGIN_NODE: the name and the cursor after it
name_len == Find0(SliceFrom(buf, off + 4))
NameBytes == Slice(buf, off + 4, off + 4 + name_len)
NameNextOff == AfterTag + name_len + 4 - PyMod(name_len, 4)
\* find() scans up to and including the NUL, or to the end of the buffer
NameReads ==
    IF name_len >= 0 THEN (off + 4)..(off + 4 + name_len)
    ELSE SliceIdx(buf, off + 4, Len(buf))

\* PROP: length, name offset, name, value and the cursor after the padding
PropLenSlice == Slice(buf, off + 4, off + 8)
NameOffSlice == Slice(buf, off + 8, off + 12)
prop_len == read_uint32(PropLenSlice)
name_off == read_uint32(NameOffSlice)
name_buf == SliceFrom(buf, hdr.off_dt_strings + name_off)
PropNameBytes == Slice(name_buf, 0, Find0(name_buf))
PropValue == Slice(buf, off + 12, off + 12 + prop_len)
\* the cursor after a value without its padding
PropNextOffNoPad == AfterTag + 8 + prop_len
PropNextOff ==
    AfterTag + 8 + prop_len + (IF prop_len % 4 # 0 THEN 4 - (prop_len % 4) ELSE 0)
\* the position assertion of END left out
EndOffsetOkAlways(o) == TRUE
\* assert off == hdr.off_dt_struct + hdr.size_dt_struct
EndOffsetOk(o) == o = hdr.off_dt_struct + hdr.size_dt_struct
\* assert node_depth == 0
EndDepthOk(d) == d = 0
PropReads == SliceIdx(buf, off + 4, off + 12) \cup SliceIdx(buf, off + 12, off + 12 + prop_len)

\* an exception leaves the generator: nothing more is yielded
Fail(e) ==
    /\ err' = e
    /\ pc' = "done"
    /\ UNCHANGED <<off, node_depth, parent_nodes, tokens, tok_depth>>

\* the end of a loop iteration: yield token
Yield(token, next_off, depth, parents) ==
    /\ tokens' = Append(tokens, token)
    /\ tok_depth' = Append(tok_depth, node_depth)
    /\ off' = next_off
    /\ node_depth' = depth
    /\ parent_nodes' = parents
    /\ UNCHANGED <<pc, err>>

TokFixed == <<buf, hdr, rsv_off, entries, rsv_err, rsv_reads, HtmlVars>>

\* the tag cannot be read: read_uint32 raises IndexError
TokTagFail ==
    /\ pc = "tokens" /\ LoopCond /\ ~TagOk
    /\ tok_reads' = tok_reads \cup TagReads
    /\ Fail("IndexError")
    /\ UNCHANGED TokFixed

TokBeginNode ==
    /\ pc = "tokens" /\ LoopCond /\ TagOk /\ token_type = FDT_BEGIN_NODE
    /\ tok_reads' = tok_reads \cup TagReads \cup NameReads
    /\ IF ~DecodeOk(NameBytes) THEN Fail("UnicodeDecodeError")
       ELSE LET name == Decode(NameBytes)
                parents == Append(parent_nodes, name)
            IN  IF node_depth = 0
                THEN IF RootNameOk(name)
                     THEN Yield(BeginNodeToken(token_type, name, <<47>>),
                                NameNextOff, node_depth + 1, parents)
                     ELSE Fail("root_name")
                ELSE IF NodeNameOk(name)
                     THEN Yield(BeginNodeToken(token_type, name, PathOf(parents)),
                                NameNextOff, node_depth + 1, parents)
                     ELSE Fail("node_name")
    /\ UNCHANGED TokFixed

TokEndNode ==
    /\ pc = "tokens" /\ LoopCond /\ TagOk /\ token_type = FDT_END_NODE
    /\ tok_reads' = tok_reads \cup TagReads
    /\ IF Len(parent_nodes) = 0 THEN Fail("IndexError")
       ELSE IF ~(node_depth - 1 >= 0) THEN Fail("depth_negative")
       ELSE Yield(EndNodeToken(token_type), AfterTag, node_depth - 1,
                  SubSeq(parent_nodes, 1, Len(parent_nodes) - 1))
    /\ UNCHANGED TokFixed

TokProp ==
    /\ pc = "tokens" /\ LoopCond /\ TagOk /\ token_type = FDT_PROP
    /\ IF ~PropDepthOk(node_depth)
       THEN tok_reads' = tok_reads \cup TagReads /\ Fail("prop_depth")
       ELSE IF ~read_uint32_ok(PropLenSlice) \/ ~read_uint32_ok(NameOffSlice)
       THEN /\ tok_reads' = tok_reads \cup TagReads \cup SliceIdx(buf, off + 4, off + 12)
            /\ Fail("IndexError")
       ELSE IF ~DecodeOk(PropNameBytes)
       THEN /\ tok_reads' = tok_reads \cup TagReads \cup SliceIdx(buf, off + 4, off + 12)
            /\ Fail("UnicodeDecodeError")
       ELSE /\ tok_reads' = tok_reads \cup TagReads \cup PropReads
            /\ Yield(PropToken(token_type, Decode(PropNameBytes), PropValue),
                     PropNextOff, node_depth, parent_nodes)
    /\ UNCHANGED TokFixed

TokNop ==
    /\ pc = "tokens" /\ LoopCond /\ TagOk /\ token_type = FDT_NOP
    /\ tok_reads' = tok_reads \cup TagReads
    /\ Yield(NopToken(token_type), AfterTag, node_depth, parent_nodes)
    /\ UNCHANGED TokFixed

TokEnd ==
    /\ pc = "tokens" /\ LoopCond /\ TagOk /\ token_type = FDT_END
    /\ tok_reads' = tok_reads \cup TagReads
    /\ IF ~EndOffsetOk(AfterTag) THEN Fail("end_offset")
       ELSE IF ~EndDepthOk(node_depth) THEN Fail("end_depth")
       ELSE Yield(EndToken(token_type), AfterTag, node_depth, parent_nodes)
    /\ UNCHANGED TokFixed

\* assert False, f"unknown token type {token_type}"
TokUnknown ==
    /\ pc = "tokens" /\ LoopCond /\ TagOk
    /\ token_type \notin {FDT_BEGIN_NODE, FDT_END_NODE, FDT_PROP, FDT_NOP, FDT_END}
    /\ tok_reads' = tok_reads \cup TagReads
    /\ Fail("unknown_token")
    /\ UNCHANGED TokFixed

\* the while condition is false: the generator returns, list() has the
\* tokens and main() calls generate_html
TokExhausted ==
    /\ pc = "tokens" /\ ~LoopCond
    /\ pc' = "symbols"
    /\ UNCHANGED <<buf, hdr, err, rsv_off, entries, rsv_err, rsv_reads, off,
                   node_depth, parent_nodes, tokens, tok_depth, tok_reads>>
    /\ UNCHANGED HtmlVars

\* get_header, then the two generators start from the accepted header
GetHeader ==
    /\ pc = "header"
    /\ IF HeaderResult(buf) = "none"
       THEN /\ hdr' = ParseHeader(buf)
            /\ rsv_off' = hdr'.off_mem_rsvmap
            /\ off' = hdr'.off_dt_struct
            /\ pc' = "reserve"
            /\ UNCHANGED err
       ELSE /\ err' = HeaderResult(buf)
            /\ pc' = "done"
            /\ UNCHANGED <<hdr, rsv_off, off>>
    /\ UNCHANGED <<buf, entries, rsv_err, rsv_reads, node_depth, parent_nodes,
                   tokens, tok_depth, tok_reads>>
    /\ UNCHANGED HtmlVars

\* ------------------------------------------- get_props_of_node, get_symbols
\* a dict is a function from its keys; {} is the function of the empty domain
EmptyDict == [n \in {} |-> <<>>]
\* a dict that keeps the value a key already has
DictSetKeepFirst(d, k, v) ==
    [n \in DOMAIN d \cup {k} |-> IF n \in DOMAIN d THEN d[n] ELSE v]
\* d[k] = v
DictSet(d, k, v) == [n \in DOMAIN d \cup {k} |-> IF n = k THEN v ELSE d[n]]

\* "/__symbols__"
SYMBOLS_PATH == <<47, 95, 95, 115, 121, 109, 98, 111, 108, 115, 95, 95>>

\* a comparison that every open node passes
PathMatchesAny(path_stack, path) == TRUE
\* path_stack[-1] == path
PathMatches(path_stack, path) == path_stack[Len(path_stack)] = path

\* the generator get_props_of_node after the first k tokens: its path_stack,
\* the tokens it has yielded, and the exception that ended it (pop from an
\* empty list, path_stack[-1] of an empty list)
RECURSIVE PropsScan(_, _, _)
PropsScan(toks, path, k) ==
    IF k = 0 THEN [path_stack |-> <<>>, yielded |-> <<>>, err |-> "none"]
    ELSE LET s == PropsScan(toks, path, k - 1)
             t == toks[k]
             n == Len(s.path_stack)
         IN  IF s.err # "none" THEN s
             ELSE IF t.type = FDT_BEGIN_NODE
                  THEN [s EXCEPT !.path_stack = Append(@, t.path)]
             ELSE IF t.type = FDT_END_NODE
                  THEN IF n = 0 THEN [s EXCEPT !.err = "IndexError"]
                       ELSE [s EXCEPT !.path_stack = SubSeq(@, 1, n - 1)]
             ELSE IF t.type = FDT_PROP
                  THEN IF n = 0 THEN [s EXCEPT !.err = "IndexError"]
                       ELSE IF PathMatches(s.path_stack, path)
                            THEN [s EXCEPT !.yielded = Append(@, t)]
                            ELSE s
             ELSE s

\* get_props_of_node(tokens, path) with path a str (the bytes branch is not
\* taken by any caller that is modelled): the tokens yielded, then the
\* exception, if any, that the consumer meets after them
get_props_of_node(toks, path) ==
    LET s == PropsScan(toks, path, Len(toks))
    IN  [yielded |-> s.yielded, err |-> s.err]

\* the assertion on the index left out
SymbolIndexOkAlways(index) == TRUE
\* assert index >= 0
SymbolIndexOk(index) == index >= 0

\* the loop body of get_symbols over the first k yielded properties
RECURSIVE SymScan(_, _)
SymScan(props, k) ==
    IF k = 0 THEN [res |-> EmptyDict, err |-> "none"]
    ELSE LET s == SymScan(props, k - 1)
             prop == props[k]
             index == Find0(prop.value)
         IN  IF s.err # "none" THEN s
             ELSE IF ~SymbolIndexOk(index) THEN [s EXCEPT !.err = "AssertionError"]
             ELSE IF ~DecodeOk(Slice(prop.value, 0, index))
                  THEN [s EXCEPT !.err = "UnicodeDecodeError"]
             ELSE [s EXCEPT !.res = DictSet(@, prop.name,
                                            Decode(Slice(prop.value, 0, index)))]

\* get_symbols(tokens): the generator is consumed lazily, so an exception of
\* the loop body comes before an exception the generator raises later
get_symbols(toks) ==
    LET g == get_props_of_node(toks, SYMBOLS_PATH)
        s == SymScan(g.yielded, Len(g.yielded))
    IN  IF s.err # "none" THEN s ELSE [res |-> s.res, err |-> g.err]

\* --------------------------------------------------------------- to_graph
\* Node(name, path, {}, []): nodes are kept in creation order and referred to
\* by their position; children holds positions
Node(name, path, props, children) ==
    [name |-> name, path |-> path, props |-> props, children |-> children]

\* to_graph after the first k tokens: the nodes created, the stack of
\* positions, and the exception raised (stack.pop() or stack[-1] of an empty
\* list)
RECURSIVE GraphScan(_, _)
GraphScan(toks, k) ==
    IF k = 0 THEN [nodes |-> <<>>, stack |-> <<>>, err |-> "none"]
    ELSE LET s == GraphScan(toks, k - 1)
             t == toks[k]
             n == Len(s.stack)
         IN  IF s.err # "none" THEN s
             ELSE IF t.type = FDT_BEGIN_NODE
                  THEN [s EXCEPT !.nodes = Append(@, Node(t.name, t.path, EmptyDict, <<>>)),
                                 !.stack = Append(@, Len(s.nodes) + 1)]
             ELSE IF t.type = FDT_END_NODE
                  THEN LET linked ==
                               IF n >= 2
                               THEN [s.nodes EXCEPT ![s.stack[n - 1]].children =
                                                        Append(@, s.stack[n])]
                               ELSE s.nodes
                       IN  IF n # 1
                           THEN IF n = 0 THEN [s EXCEPT !.err = "IndexError"]
                                ELSE [s EXCEPT !.nodes = linked,
                                               !.stack = SubSeq(@, 1, n - 1)]
                           ELSE [s EXCEPT !.nodes = linked]
             ELSE IF t.type = FDT_PROP
                  THEN IF n = 0 THEN [s EXCEPT !.err = "IndexError"]
                       ELSE [s EXCEPT !.nodes[s.stack[n]].props =
                                          DictSet(@, t.name, t.value)]
             ELSE s

\* to_graph(tokens): return stack[0] (IndexError on an empty stack); root is
\* the position of the returned node, 0 when nothing is returned
to_graph(toks) ==
    LET s == GraphScan(toks, Len(toks))
    IN  IF s.err # "none" THEN [nodes |-> s.nodes, stack |-> s.stack, root |-> 0, err |-> s.err]
        ELSE IF Len(s.stack) = 0
             THEN [nodes |-> s.nodes, stack |-> s.stack, root |-> 0, err |-> "IndexError"]
        ELSE [nodes |-> s.nodes, stack |-> s.stack, root |-> s.stack[1], err |-> "none"]

\* ---------------------------------------------------------- generate_html
DecodeFixed == <<buf, hdr, err, rsv_off, entries, rsv_err, rsv_reads, off,
                 node_depth, parent_nodes, tokens, tok_depth, tok_reads>>

\* symbols = get_symbols(tokens); an exception leaves generate_html and main()
GetSymbols ==
    /\ pc = "symbols"
    /\ LET r == get_symbols(tokens)
       IN  /\ sym_err' = r.err
           /\ symbols' = IF r.err = "none" THEN r.res ELSE symbols
           /\ pc' = IF r.err = "none" THEN "graph" ELSE "done"
    /\ UNCHANGED <<nodes, stack, root, graph_err>>
    /\ UNCHANGED DecodeFixed

\* root = to_graph(tokens)
ToGraph ==
    /\ pc = "graph"
    /\ LET r == to_graph(tokens)
       IN  /\ nodes' = r.nodes
           /\ stack' = r.stack
           /\ root' = r.root
           /\ graph_err' = r.err
    /\ pc' = "done"
    /\ UNCHANGED <<symbols, sym_err>>
    /\ UNCHANGED DecodeFixed

\* ------------------------------------------------------------- the inputs
\* The buffers main() may read from the file: four families, each bounded.
SeqsUpTo(S, n) == UNION { [1..k -> S] : k \in 0..n }

RECURSIVE Flatten(_)
Flatten(ss) == IF Len(ss) = 0 THEN <<>> ELSE Head(ss) \o Flatten(Tail(ss))

Zeros(n) == [i \in 1..n |-> 0]

HeaderBytes(f) ==
    BEMagic(f.magic) \o BE32(f.totalsize) \o BE32(f.off_dt_struct)
    \o BE32(f.off_dt_strings) \o BE32(f.off_mem_rsvmap) \o BE32(f.version)
    \o BE32(f.last_comp_version) \o BE32(f.boot_cpuid_phys)
    \o BE32(f.size_dt_strings) \o BE32(f.size_dt_struct)

\* the strings block "x\0yz": one terminated name, one unterminated
StringsBlock == <<120, 0, 121, 122>>

\* a well-formed version-17 blob: header, reservation block, structure block
\* (of which the header declares size_struct bytes), strings block
Blob(rsv, struct, size_struct, strings) ==
    HeaderBytes([magic |-> MAGIC,
                 totalsize |-> 40 + Len(rsv) + Len(struct) + Len(strings),
                 off_dt_struct |-> 40 + Len(rsv),
                 off_dt_strings |-> 40 + Len(rsv) + Len(struct),
                 off_mem_rsvmap |-> 40, version |-> 17, last_comp_version |-> 16,
                 boot_cpuid_phys |-> 0, size_dt_strings |-> Len(strings),
                 size_dt_struct |-> size_struct])
    \o rsv \o struct \o strings

\* structure items: BEGIN_NODE "", BEGIN_NODE "a", END_NODE,
\* PROP (2 value bytes "/\0", name offset 0), END; NOP is one of the raw words
ItBeginRoot == BE32(FDT_BEGIN_NODE) \o BE32(0)
ItBeginA == BE32(FDT_BEGIN_NODE) \o <<97, 0, 0, 0>>
ItEndNode == BE32(FDT_END_NODE)
ItProp == BE32(FDT_PROP) \o BE32(2) \o BE32(0) \o <<47, 0, 0, 0>>
ItEnd == BE32(FDT_END)
Items == {ItBeginRoot, ItBeginA, ItEndNode, ItProp, ItEnd}

\* family 1: structure blocks of up to MaxItems items
NestingBufs ==
    { Blob(Zeros(16), Flatten(its), Len(Flatten(its)), StringsBlock) :
        its \in SeqsUpTo(Items, MaxItems) }

\* raw words: the tags, small numbers, and the names "a", "a\n", "a ", "a@b",
\* "abcd" (no terminator in the word) and "a\xff"
Words == { BE32(0), BE32(FDT_BEGIN_NODE), BE32(FDT_END_NODE), BE32(FDT_PROP),
           BE32(FDT_NOP), BE32(FDT_END), BE32(5),
           <<97, 0, 0, 0>>, <<97, 10, 0, 0>>, <<97, 32, 0, 0>>, <<97, 64, 98, 0>>,
           <<97, 98, 99, 100>>, <<97, 255, 0, 0>> }

\* family 2: structure blocks of up to MaxWords arbitrary words, at depth 0,
\* inside the root node, or as the length and name offset of a property of the
\* root node; the declared size is the whole block or 2 bytes less
WordBufs ==
    { Blob(Zeros(16), pre \o Flatten(ws),
           IF Len(pre \o Flatten(ws)) >= 4 THEN Len(pre \o Flatten(ws)) - cut ELSE 0,
           StringsBlock) :
        pre \in {<<>>, ItBeginRoot, ItBeginRoot \o BE32(FDT_PROP)}, ws \in SeqsUpTo(Words, MaxWords), cut \in {0, 2} }

\* the smallest complete tree: BEGIN_NODE "", END_NODE, END
MinimalStruct == ItBeginRoot \o ItEndNode \o ItEnd

\* family 3: every combination of header fields around the 76-byte blob
HeaderBufs ==
    { HeaderBytes([magic |-> m, totalsize |-> t, off_dt_struct |-> os,
                   off_dt_strings |-> og, off_mem_rsvmap |-> om, version |-> v,
                   last_comp_version |-> lv, boot_cpuid_phys |-> 0,
                   size_dt_strings |-> sg, size_dt_struct |-> ss])
      \o Zeros(16) \o MinimalStruct \o StringsBlock :
        m \in {MAGIC, <<0, 0>>}, t \in {76, 77}, os \in {40, 56, 58, 72},
        og \in {56, 72, 73}, om \in {40, 44, 56}, v \in {16, 17}, lv \in {16, 17},
        sg \in {4, 5}, ss \in {16, 17} }

\* family 4: a blob cut short, with the right and with a wrong magic
GoodBlob == Blob(Zeros(16), MinimalStruct, Len(MinimalStruct), StringsBlock)
ShortBufs ==
    { SubSeq(b, 1, k) :
        b \in {GoodBlob, [GoodBlob EXCEPT ![1] = 0]}, k \in 0..39 }

\* family 5: reservation blocks of up to MaxRsvUnits 8-byte units of value 0 or
\* 1, optionally 4 more bytes, then either a one-byte structure area with no
\* strings or the minimal tree
RsvBufs ==
    { Blob(Flatten([i \in 1..Len(us) |-> BE64(us[i])]) \o Zeros(pad),
           tail[1], tail[2], tail[3]) :
        us \in SeqsUpTo({0, 1}, MaxRsvUnits), pad \in {0, 4},
        tail \in { <<<<0>>, 0, <<>>>>, <<<<0>>, 1, <<>>>>,
                   <<MinimalStruct, Len(MinimalStruct), StringsBlock>> } }

\* the strings block "x\0y\0"
SymStringsBlock == <<120, 0, 121, 0>>
\* BEGIN_NODE "__symbols__"; PROP x = "/a\0"; PROP y = "ab" (no NUL);
\* PROP y = "\xff\0" (not UTF-8)
ItBeginSym == BE32(FDT_BEGIN_NODE) \o <<95, 95, 115, 121, 109, 98, 111, 108, 115, 95, 95, 0>>
ItPropXA == BE32(FDT_PROP) \o BE32(3) \o BE32(0) \o <<47, 97, 0, 0>>
ItPropNoNul == BE32(FDT_PROP) \o BE32(2) \o BE32(2) \o <<97, 98, 0, 0>>
ItPropNotUtf8 == BE32(FDT_PROP) \o BE32(2) \o BE32(2) \o <<255, 0, 0, 0>>
SymItems == {ItBeginSym, ItEndNode, ItProp, ItPropXA, ItPropNoNul, ItPropNotUtf8}

\* the END_NODE items that close what a sequence of items leaves open below
\* the d nodes already open, then END
RECURSIVE CloseAll(_, _)
CloseAll(its, d) ==
    IF Len(its) = 0 THEN Flatten([i \in 1..d |-> ItEndNode]) \o ItEnd
    ELSE IF Head(its) = ItBeginSym THEN CloseAll(Tail(its), d + 1)
    ELSE IF Head(its) = ItEndNode /\ d > 0 THEN CloseAll(Tail(its), d - 1)
    ELSE CloseAll(Tail(its), d)

\* family 6: trees with nodes named __symbols__: the root, or the root and
\* /__symbols__, or these and /__symbols__/__symbols__, opened, up to
\* MaxSymItems items, every open node closed, END
SymBufs ==
    { Blob(Zeros(16), pre[1] \o Flatten(its) \o CloseAll(its, pre[2]),
           Len(pre[1] \o Flatten(its) \o CloseAll(its, pre[2])), SymStringsBlock) :
        pre \in {<<ItBeginRoot, 1>>, <<ItBeginRoot \o ItBeginSym, 2>>,
                 <<ItBeginRoot \o ItBeginSym \o ItBeginSym, 3>>},
        its \in SeqsUpTo(SymItems, MaxSymItems) }

Inputs == NestingBufs \cup WordBufs \cup HeaderBufs \cup ShortBufs \cup RsvBufs \cup SymBufs

\* ------------------------------------------------------ the specification
Init ==
    /\ buf \in Inputs
    /\ pc = "header"
    /\ hdr = NoHeader
    /\ err = "none"
    /\ rsv_off = 0
    /\ entries = <<>>
    /\ rsv_err = "none"
    /\ rsv_reads = {}
    /\ off = 0
    /\ node_depth = 0
    /\ parent_nodes = <<>>
    /\ tokens = <<>>
    /\ tok_depth = <<>>
    /\ tok_reads = {}
    /\ symbols = EmptyDict
    /\ sym_err = "none"
    /\ nodes = <<>>
    /\ stack = <<>>
    /\ root = 0
    /\ graph_err = "none"

Next ==
    \/ GetHeader
    \/ ReserveEntry
    \/ ReserveBreak
    \/ ReserveFail
    \/ ReserveExhausted
    \/ TokTagFail
    \/ TokBeginNode
    \/ TokEndNode
    \/ TokProp
    \/ TokNop
    \/ TokEnd
    \/ TokUnknown
    \/ TokExhausted
    \/ GetSymbols
    \/ ToGraph

Spec == Init /\ [][Next]_vars

TypeOK ==
    /\ pc \in {"header", "reserve", "tokens", "symbols", "graph", "done"}
    /\ node_depth = Len(parent_nodes)
    /\ Len(tokens) = Len(tok_depth)

\* ------------------------------------------------------------ properties
\* get_header returned a header
Accepted == hdr # NoHeader
\* get_structure_tokens ran to exhaustion without an exception
TokensEnded ==
    pc \in {"symbols", "graph", "done"} /\ Accepted /\ rsv_err = "none" /\ err = "none"
\* min(off_dt_strings, off_dt_struct + size_dt_struct)
TokLimit == Min(hdr.off_dt_strings, StructEnd)
\* the number of tokens of type t among the first k yielded
Count(t, k) == Cardinality({ i \in 1..k : tokens[i].type = t })
IsBegin(i) == tokens[i].type = FDT_BEGIN_NODE

\* C1: whenever the cursor reaches the decoding bound before an End token was
\* produced, decoding fails: a token sequence that ended without an exception
\* ends with an End token.
C1_EndsWithEndToken ==
    TokensEnded => Len(tokens) > 0 /\ tokens[Len(tokens)].type = FDT_END

\* C2: in a token sequence produced to exhaustion without failing, BeginNode
\* and EndNode tokens are equally many, and no prefix holds more EndNode than
\* BeginNode tokens.
C2_BalancedNesting ==
    TokensEnded =>
        /\ Count(FDT_BEGIN_NODE, Len(tokens)) = Count(FDT_END_NODE, Len(tokens))
        /\ \A k \in 1..Len(tokens) : Count(FDT_END_NODE, k) <= Count(FDT_BEGIN_NODE, k)

\* C3: a token sequence produced without failing holds exactly one BeginNode
\* token read at depth 0 (name "", path "/"), and no second depth-0 node is
\* ever opened once the root has been closed.
C3_UniqueRoot ==
    /\ Cardinality({ i \in 1..Len(tokens) : IsBegin(i) /\ tok_depth[i] = 0 }) <= 1
    /\ TokensEnded =>
           Cardinality({ i \in 1..Len(tokens) :
                           IsBegin(i) /\ tokens[i].name = <<>> /\ tokens[i].path = <<47>> }) = 1

\* C4: every buffer index get_structure_tokens reads as part of a token (tag,
\* node name and terminator, property length and name offset, property value)
\* lies strictly below min(off_dt_strings, off_dt_struct + size_dt_struct).
C4_ReadsBelowLimit ==
    Accepted => \A k \in tok_reads : k < TokLimit

\* C5: a BeginNode read at depth > 0 is yielded if and only if its decoded name
\* is 1 to 31 characters of [A-Za-z0-9,._+-], optionally followed by "@" and
\* one or more characters of that set; any other name makes decoding fail.
C5_NamePattern ==
    [][ ( /\ pc = "tokens" /\ LoopCond /\ TagOk /\ token_type = FDT_BEGIN_NODE
          /\ node_depth > 0 /\ DecodeOk(NameBytes) )
        => ( /\ (Len(tokens') = Len(tokens) + 1) <=> FullMatch(Decode(NameBytes))
             /\ (err' # "none") <=> ~FullMatch(Decode(NameBytes)) ) ]_vars

\* C6: a Property tag read while the nesting depth is 0 makes decoding fail and
\* yields no token; every yielded Property token was read at depth >= 1.
C6_PropertyInsideNode ==
    /\ [](\A i \in 1..Len(tokens) : tokens[i].type = FDT_PROP => tok_depth[i] >= 1)
    /\ [][ ( /\ pc = "tokens" /\ LoopCond /\ TagOk /\ token_type = FDT_PROP
             /\ node_depth = 0 )
           => (err' # "none" /\ pc' = "done" /\ tokens' = tokens) ]_vars

\* a Property tag was read at depth 0, after the root node had been closed
C6_Witness ==
    /\ pc = "done" /\ err = "prop_depth"
    /\ \E i \in 1..Len(tokens) : tokens[i].type = FDT_END_NODE

\* the names of the open nodes after the first k tokens, from the tokens alone
RECURSIVE OpenNames(_)
OpenNames(k) ==
    IF k = 0 THEN <<>>
    ELSE LET s == OpenNames(k - 1)
         IN  IF tokens[k].type = FDT_BEGIN_NODE THEN Append(s, tokens[k].name)
             ELSE IF tokens[k].type = FDT_END_NODE THEN SubSeq(s, 1, Len(s) - 1)
             ELSE s

NoDoubleSlash(p) == \A j \in 1..(Len(p) - 1) : ~(p[j] = 47 /\ p[j + 1] = 47)

\* C7: the path of a BeginNode yielded at depth > 0 is "/" followed by the
\* names of its non-root ancestors and its own name joined with "/"; it starts
\* with exactly one "/" and holds no "//".
C7_PathOfNode ==
    \A i \in 1..Len(tokens) :
        (IsBegin(i) /\ tok_depth[i] > 0) =>
            /\ tokens[i].path = <<47>> \o JoinSlash(Tail(OpenNames(i)))
            /\ Len(tokens[i].path) >= 2
            /\ tokens[i].path[1] = 47 /\ tokens[i].path[2] # 47
            /\ NoDoubleSlash(tokens[i].path)

\* a node at depth 2 opened after a sibling subtree was closed
C7_Witness ==
    \E i \in 1..Len(tokens) :
        /\ IsBegin(i) /\ tok_depth[i] = 2
        /\ \E j \in 1..(i - 1) : tokens[j].type = FDT_END_NODE

\* C8: a buffer of 4 or more bytes whose first four bytes are not D0 0D FE ED
\* fails get_header at the magic check, before any other failure.
C8_MagicFirst ==
    (pc # "header" /\ Len(buf) >= 4 /\ SubSeq(buf, 1, 4) # BEMagic(MAGIC))
        => err = "magic"

\* the orderings and bounds of the three sections
SectionsOrdered(h, n) ==
    /\ h.off_mem_rsvmap < h.off_dt_struct
    /\ h.off_dt_struct < h.off_dt_strings
    /\ h.off_dt_struct + h.size_dt_struct <= h.off_dt_strings
    /\ h.off_dt_strings + h.size_dt_strings <= h.totalsize
    /\ h.totalsize = n

\* C9: a header get_header returns has off_mem_rsvmap < off_dt_struct <
\* off_dt_strings, off_dt_struct + size_dt_struct <= off_dt_strings and
\* off_dt_strings + size_dt_strings <= totalsize = len(buf); a buffer that
\* violates one of these is rejected.
C9_SectionOrder ==
    /\ Accepted => SectionsOrdered(hdr, Len(buf))
    /\ (pc # "header" /\ Len(buf) >= 40 /\ ~SectionsOrdered(ParseHeader(buf), Len(buf)))
           => (~Accepted /\ pc = "done" /\ err # "none")

\* an accepted header whose sections touch: each bound is met with equality
C9_Witness ==
    /\ Accepted
    /\ hdr.off_dt_struct + hdr.size_dt_struct = hdr.off_dt_strings
    /\ hdr.off_dt_strings + hdr.size_dt_strings = hdr.totalsize

\* C10: on every accepted buffer get_reserve_entries runs to exhaustion
\* without a failure.
C10_ReserveNeverFails ==
    Accepted => rsv_err = "none"

\* the smallest multiple of 4 that is at least n, for n >= 0
RoundUp4(n) == 4 * ((n + 3) \div 4)

\* a step of get_structure_tokens that yields a token
Yields == Len(tokens') = Len(tokens) + 1
\* the tag under the cursor is t and can be read
AtTag(t) == pc = "tokens" /\ LoopCond /\ TagOk /\ token_type = t

\* C15: get_structure_tokens terminates: a step that stays in the loop was
\* taken with the cursor below min(off_dt_strings, off_dt_struct +
\* size_dt_struct) and moves the cursor forward by at least 4 (the distance to
\* the bound is a variant), every other step leaves the loop; so at most
\* ceil((bound - off_dt_struct) / 4) tokens are produced.
C15_CursorProgress ==
    /\ [][ (pc = "tokens" /\ pc' = "tokens")
           => (Yields /\ off < TokLimit /\ off' >= off + 4) ]_vars
    /\ [][Yields => (pc = "tokens" /\ off' >= off + 4)]_vars
    /\ [](Accepted => 4 * Len(tokens) <= RoundUp4(TokLimit - hdr.off_dt_struct))

\* a decode that produced as many tokens as the bound allows
C15_Witness ==
    /\ Accepted /\ pc # "tokens" /\ err = "none" /\ Len(tokens) >= 2
    /\ (TokLimit - hdr.off_dt_struct) % 4 # 0
    /\ 4 * Len(tokens) = RoundUp4(TokLimit - hdr.off_dt_struct)

\* C16: an End token is yielded only at depth 0 with the cursor just past its
\* tag at off_dt_struct + size_dt_struct; an End tag read in any other state
\* makes decoding fail; nothing is yielded after an End token.
C16_EndIsLast ==
    /\ [](\A i \in 1..Len(tokens) :
            tokens[i].type = FDT_END =>
                (i = Len(tokens) /\ tok_depth[i] = 0 /\ off = StructEnd))
    /\ [][ (AtTag(FDT_END) /\ ~(node_depth = 0 /\ off + 4 = StructEnd))
           => (err' # "none" /\ pc' = "done" /\ tokens' = tokens) ]_vars

\* an End token closes a sequence that opened and closed a node
C16_Witness ==
    /\ Len(tokens) >= 3 /\ tokens[Len(tokens)].type = FDT_END
    /\ \E i \in 1..Len(tokens) : tokens[i].type = FDT_END_NODE

\* the k-th 16-byte record of the reservation block, k >= 0
RsvRecord(k) ==
    << read_uint64(Slice(buf, hdr.off_mem_rsvmap + 16 * k, hdr.off_mem_rsvmap + 16 * k + 8)),
       read_uint64(Slice(buf, hdr.off_mem_rsvmap + 16 * k + 8, hdr.off_mem_rsvmap + 16 * k + 16)) >>

\* C17: get_reserve_entries emits, in order, the consecutive 16-byte records
\* from off_mem_rsvmap that precede the first all-zero record; every byte it
\* reads lies in [off_mem_rsvmap, off_dt_struct), so no record reaching into
\* the structure block is read or emitted; no all-zero entry is emitted.
C17_ReserveInsideBlock ==
    Accepted =>
        /\ \A k \in rsv_reads : hdr.off_mem_rsvmap <= k /\ k < hdr.off_dt_struct
        /\ \A i \in 1..Len(entries) :
               /\ entries[i] = RsvRecord(i - 1)
               /\ entries[i] # << <<0, 0>>, <<0, 0>> >>
               /\ hdr.off_mem_rsvmap + 16 * i <= hdr.off_dt_struct

\* C19: the cursor is a multiple of 4 whenever a token is read; a BeginNode
\* whose name has n bytes before its NUL leaves the cursor 4*ceil((n+1)/4)
\* past the start of the name, a Property 4*ceil(L/4) past the start of its
\* L-byte value, and EndNode, Nop and End exactly 4 past the tag.
C19_CursorAlignment ==
    /\ [](pc = "tokens" => off % 4 = 0)
    /\ [][ /\ (AtTag(FDT_BEGIN_NODE) /\ Yields /\ name_len >= 0)
              => off' = (off + 4) + RoundUp4(name_len + 1)
           /\ (AtTag(FDT_PROP) /\ Yields)
              => off' = (off + 12) + RoundUp4(prop_len)
           /\ ((AtTag(FDT_END_NODE) \/ AtTag(FDT_NOP) \/ AtTag(FDT_END)) /\ Yields)
              => off' = off + 4 ]_vars

\* a one-byte name and a two-byte value were both padded
C19_Witness ==
    /\ \E i \in 1..Len(tokens) : IsBegin(i) /\ Len(tokens[i].name) = 1
    /\ \E i \in 1..Len(tokens) : tokens[i].type = FDT_PROP /\ Len(tokens[i].value) = 2

\* C20: the name of a yielded Property token starts inside the strings block
\* and is every byte from there up to a NUL that also lies inside the strings
\* block; otherwise no Property token is yielded.
C20_NameInsideStrings ==
    [][ (AtTag(FDT_PROP) /\ Yields) =>
          LET start == hdr.off_dt_strings + name_off
              stop == hdr.off_dt_strings + hdr.size_dt_strings
          IN  /\ start < stop
              /\ \E k \in start..(stop - 1) :
                    /\ buf[k + 1] = 0
                    /\ \A j \in start..(k - 1) : buf[j + 1] # 0
                    /\ tokens'[Len(tokens')].name = Slice(buf, start, k) ]_vars

\* ------------------------------------------ properties of get_symbols, to_graph
IsProp(i) == tokens[i].type = FDT_PROP
IsEndNode(i) == tokens[i].type = FDT_END_NODE
\* the largest element of a non-empty set of numbers
MaxOf(S) == CHOOSE m \in S : \A x \in S : x <= m
\* the elements of a finite set of numbers in increasing order
RECURSIVE SortedSeq(_)
SortedSeq(S) ==
    IF S = {} THEN <<>>
    ELSE LET m == CHOOSE x \in S : \A y \in S : x <= y
         IN  <<m>> \o SortedSeq(S \ {m})
\* the BeginNode token that token i lies directly inside: the nearest earlier
\* BeginNode with as many BeginNode as EndNode tokens between it and i; 0 if none
Encloser(i) ==
    LET C == { j \in 1..(i - 1) :
                 /\ IsBegin(j)
                 /\ Cardinality({ m \in (j + 1)..(i - 1) : IsBegin(m) })
                    = Cardinality({ m \in (j + 1)..(i - 1) : IsEndNode(m) }) }
    IN  IF C = {} THEN 0 ELSE MaxOf(C)
\* the bytes of v before its first NUL (all of v if it has none)
RECURSIVE BeforeNul(_)
BeforeNul(v) ==
    IF Len(v) = 0 \/ Head(v) = 0 THEN <<>> ELSE <<Head(v)>> \o BeforeNul(Tail(v))
HasNul(v) == \E k \in 1..Len(v) : v[k] = 0
\* Property token i lies directly inside a node whose path is "/__symbols__"
InSymbols(i) ==
    IsProp(i) /\ Encloser(i) # 0 /\ tokens[Encloser(i)].path = SYMBOLS_PATH
SymbolProps == { i \in 1..Len(tokens) : InSymbols(i) }
\* the mapping of the properties of /__symbols__, a repeated name keeping its
\* last value
RefSymbols ==
    [ n \in { tokens[i].name : i \in SymbolProps } |->
        BeforeNul(tokens[MaxOf({ i \in SymbolProps : tokens[i].name = n })].value) ]
\* get_symbols was called on a complete token list, and returned
SymbolsRan == TokensEnded /\ pc \in {"graph", "done"}
SymbolsReturned == SymbolsRan /\ sym_err = "none"

\* C11: get_symbols returns exactly the mapping from the name of each Property
\* token lying directly inside a node with path "/__symbols__" to its value
\* bytes before the first NUL; properties of other nodes (the root, descendants
\* of /__symbols__, nodes named __symbols__ elsewhere) never contribute, those
\* following a closed child do; with no node of that path the result is the
\* empty mapping and there is no failure.
C11_SymbolsMapping ==
    /\ SymbolsReturned => symbols = RefSymbols
    /\ (SymbolsRan /\ \A i \in 1..Len(tokens) : IsBegin(i) => tokens[i].path # SYMBOLS_PATH)
       => (sym_err = "none" /\ symbols = EmptyDict)

\* /__symbols__ has a property that follows its closed child
\* /__symbols__/__symbols__, the child has a property of another value under
\* the same name, and get_symbols returned
C11_Witness ==
    /\ SymbolsReturned
    /\ \E i \in SymbolProps :
         /\ i > 1 /\ IsEndNode(i - 1)
         /\ \E j \in 1..(i - 1) :
              /\ IsProp(j) /\ ~InSymbols(j)
              /\ tokens[j].name = tokens[i].name /\ tokens[j].value # tokens[i].value

\* C12 as stated: get_symbols fails if and only if some Property token directly
\* inside the node with path "/__symbols__" has a value containing no NUL byte.
C12_FailsIffNoNul ==
    SymbolsRan => (sym_err # "none" <=> \E i \in SymbolProps : ~HasNul(tokens[i].value))

\* C12, amended: get_symbols fails if and only if some Property token directly
\* inside a node with path "/__symbols__" has a value containing no NUL byte or
\* a value whose bytes before the first NUL are not valid UTF-8; values of
\* properties of other nodes never make it fail.
C12_FailsIffNoNulOrNotUtf8 ==
    SymbolsRan =>
        (sym_err # "none" <=>
            \E i \in SymbolProps :
                ~HasNul(tokens[i].value) \/ ~DecodeOk(BeforeNul(tokens[i].value)))

\* get_symbols failed on a value of /__symbols__ that has a NUL but is not
\* UTF-8, every value of /__symbols__ having a NUL, while the root has a
\* property whose value has no NUL
C12_Witness ==
    /\ SymbolsRan /\ sym_err = "UnicodeDecodeError"
    /\ \A i \in SymbolProps : HasNul(tokens[i].value)
    /\ \E i \in SymbolProps : ~DecodeOk(BeforeNul(tokens[i].value))
    /\ \E i \in 1..Len(tokens) : IsProp(i) /\ ~InSymbols(i) /\ ~HasNul(tokens[i].value)

\* to_graph was called (get_symbols returned before it)
GraphRan == SymbolsReturned /\ pc = "done"
GraphReturned == GraphRan /\ graph_err = "none"

\* C13: to_graph returns a tree only if its stack holds exactly the root once
\* every token is consumed; when more than one node is left on the stack it
\* fails.
C13_FailsOnUnclosedNode ==
    /\ GraphReturned => Len(stack) = 1
    /\ (GraphRan /\ Len(stack) > 1) => graph_err # "none"

\* nesting depth after the first k tokens
DepthAfter(k) == Count(FDT_BEGIN_NODE, k) - Count(FDT_END_NODE, k)
\* a balanced token sequence with a single root
BalancedSingleRoot ==
    /\ \A k \in 0..Len(tokens) : DepthAfter(k) >= 0
    /\ DepthAfter(Len(tokens)) = 0
    /\ Cardinality({ i \in 1..Len(tokens) : IsBegin(i) /\ DepthAfter(i - 1) = 0 }) = 1
    /\ \A i \in 1..Len(tokens) : IsProp(i) => DepthAfter(i - 1) > 0
\* the positions of the BeginNode tokens, in stream order: node n of to_graph
\* is made from token BeginIdx[n]
BeginIdx == SortedSeq({ i \in 1..Len(tokens) : IsBegin(i) })
\* the reference tree: children and property map of node n
RefChildren(n) ==
    SortedSeq({ m \in 1..Len(BeginIdx) : Encloser(BeginIdx[m]) = BeginIdx[n] })
PropsOf(n) == { i \in 1..Len(tokens) : IsProp(i) /\ Encloser(i) = BeginIdx[n] }
RefProps(n) ==
    [ name \in { tokens[i].name : i \in PropsOf(n) } |->
        tokens[MaxOf({ i \in PropsOf(n) : tokens[i].name = name })].value ]
\* the number of places where node n is listed as a child
ChildSlots(n) ==
    Cardinality({ e \in (1..Len(nodes)) \X (1..Len(nodes)) :
                    e[2] <= Len(nodes[e[1]].children) /\ nodes[e[1]].children[e[2]] = n })

\* C18: for a balanced token sequence with a single root, to_graph returns the
\* reference tree of the nesting: the root is the first node; each node's
\* children are the nodes whose BeginNode lies directly inside it, in stream
\* order; each non-root node is a child of exactly one node and the root of
\* none; each node's property map holds, per name, the value of the last
\* Property token with that name directly inside it.
C18_ReferenceTree ==
    (GraphRan /\ BalancedSingleRoot) =>
        /\ graph_err = "none"
        /\ root = 1
        /\ Len(nodes) = Len(BeginIdx)
        /\ \A n \in 1..Len(nodes) :
             /\ nodes[n].name = tokens[BeginIdx[n]].name
             /\ nodes[n].path = tokens[BeginIdx[n]].path
             /\ nodes[n].children = RefChildren(n)
             /\ nodes[n].props = RefProps(n)
             /\ ChildSlots(n) = (IF n = root THEN 0 ELSE 1)

\* a node other than the root has a closed child and, after it, two properties
\* of the same name and different values
C18_Witness ==
    /\ GraphReturned /\ BalancedSingleRoot
    /\ Len(nodes) >= 3
    /\ \E n \in 2..Len(nodes) : nodes[n].children # <<>> /\ nodes[n].props # EmptyDict
    /\ \E i, j \in 1..Len(tokens) :
         /\ i < j /\ IsProp(i) /\ IsProp(j)
         /\ Encloser(i) = Encloser(j) /\ Encloser(i) > 1
         /\ \E k \in (Encloser(i) + 1)..(i - 1) : IsEndNode(k)
         /\ tokens[i].name = tokens[j].name /\ tokens[i].value # tokens[j].value
====
